---- MODULE Spec2Model ----
(***************************************************************************)
(* Model of package fflag (src/fflag.go): a flag.FlagSet is filled from a  *)
(* "key value" text file, then from the argument list, and can be written  *)
(* back in the same syntax.                                                *)
(*                                                                         *)
(* Strings are sequences of one-character strings, so that trimming,       *)
(* splitting, line scanning and formatting are computed as the code        *)
(* computes them.                                                          *)
(***************************************************************************)
EXTENDS Integers, Sequences, FiniteSets, TLC

VARIABLES
    pc,            \* position inside ParseArgs / the driver of the pure functions
    osArgs,        \* os.Args[1:], the arguments the process was started with
    args,          \* the args parameter of ParseArgs
    disk,          \* the file system: path -> [exists, data]
    oArg,          \* the Options struct the caller owns (or nil)
    o,             \* the struct the local pointer o of ParseArgs refers to
    fs,            \* the caller's flag.FlagSet: name -> flag
    fileMustExist, \* local of ParseArgs, then parser.fileMustExist
    textFlags,     \* parser.textFlags
    errors,        \* parser.errors
    lineNo,        \* parser.lineNo
    setCalls,      \* the (name, value) pairs parser.visitFlag handed to Value.Set
    ignored,       \* the ignoreFlags of the last WriteFlagSetConfig call
    stdout,        \* the chunks written to the io.Writer, one per fmt call
    ret,           \* what ParseArgs returned
    line,          \* input of parseLine
    kv,            \* result of parseLine
    fs2            \* a fresh FlagSet with the definitions of fs (round trip)

vars == <<pc, osArgs, args, disk, oArg, o, fs, fileMustExist, textFlags, errors,
          lineNo, setCalls, ignored, stdout, ret, line, kv, fs2>>

-----------------------------------------------------------------------------
(* Bounds of the model *)

MaxLineLen == 4
MaxArgs == 2
MaxOsArgs == 1
MaxLines == 3
MaxValLen == 2

-----------------------------------------------------------------------------
(* Strings *)

Range(s) == {s[i] : i \in 1..Len(s)}

RECURSIVE SeqsUpTo(_, _)
SeqsUpTo(S, n) ==
    IF n = 0 THEN {<<>>}
    ELSE LET shorter == SeqsUpTo(S, n - 1)
         IN  shorter \cup {Append(s, x) : s \in {t \in shorter : Len(t) = n - 1}, x \in S}

\* The characters of the model in ascending byte order.
AsciiOrder ==
    <<"\t", "\n", "\r", " ", "\"", "#", "'", ",", "-", ".", "/", "1", ":", ";", "=",
      "C", "L", "a", "b", "c", "d", "e", "f", "g", "h", "i", "k", "l", "m", "n",
      "o", "p", "r", "s", "t", "u", "v", "w", "x", "y", "z">>

Code == [c \in Range(AsciiOrder) |->
            CHOOSE i \in 1..Len(AsciiOrder) : AsciiOrder[i] = c]

\* a < b as Go compares strings (bytewise)
RECURSIVE StrLess(_, _)
StrLess(a, b) ==
    IF b = <<>> THEN FALSE
    ELSE IF a = <<>> THEN TRUE
    ELSE IF Head(a) = Head(b) THEN StrLess(Tail(a), Tail(b))
    ELSE Code[Head(a)] < Code[Head(b)]

\* unicode.IsSpace restricted to the characters of the model
IsSpace(c) == c \in {"\t", "\n", "\r", " "}

RECURSIVE TrimLeft(_)
TrimLeft(s) == IF s # <<>> /\ IsSpace(Head(s)) THEN TrimLeft(Tail(s)) ELSE s

RECURSIVE TrimRight(_)
TrimRight(s) ==
    IF s # <<>> /\ IsSpace(s[Len(s)]) THEN TrimRight(SubSeq(s, 1, Len(s) - 1)) ELSE s

TrimSpace(s) == TrimRight(TrimLeft(s))

\* strings.Index(s, c) for a one-character c, 1-based, 0 when absent
IndexOf(s, c) ==
    IF \E i \in 1..Len(s) : s[i] = c
    THEN CHOOSE i \in 1..Len(s) : s[i] = c /\ \A j \in 1..(i - 1) : s[j] # c
    ELSE 0

\* strings.SplitN(s, sep, 2) for a one-character sep
SplitN2(s, sep) ==
    LET i == IndexOf(s, sep)
    IN  IF i = 0 THEN <<s>>
        ELSE <<SubSeq(s, 1, i - 1), SubSeq(s, i + 1, Len(s))>>

\* strings.ReplaceAll(s, "\n", with)
RECURSIVE ReplaceNewlines(_, _)
ReplaceNewlines(s, with) ==
    LET i == IndexOf(s, "\n")
    IN  IF i = 0 THEN s
        ELSE SubSeq(s, 1, i - 1) \o with \o ReplaceNewlines(SubSeq(s, i + 1, Len(s)), with)

\* strings.Repeat(" ", n)
Spaces(n) == [i \in 1..n |-> " "]

-----------------------------------------------------------------------------
(* parseLine, isComment *)

isComment(ln) ==
    IF Len(ln) = 0 THEN TRUE
    ELSE IF Len(ln) >= 2 /\ SubSeq(ln, 1, 2) = <<"/", "/">> THEN TRUE
    ELSE ln[1] \in {";", "#", "'"}

parseLine(raw) ==
    LET ln    == TrimSpace(raw)
        parts == SplitN2(ln, " ")
    IN  IF isComment(ln) THEN [k |-> <<>>, v |-> <<>>]
        ELSE [k |-> parts[1],
              v |-> IF Len(parts) = 2 THEN TrimSpace(parts[2]) ELSE <<>>]

-----------------------------------------------------------------------------
(* Package flag, as far as fflag uses it.  A FlagSet is a function from    *)
(* flag names to flags; a flag carries the text of its value               *)
(* (Value.String()), DefValue, Usage and the kind of its Value.            *)

TrueTexts ==
    {<<"1">>, <<"t">>, <<"T">>, <<"t", "r", "u", "e">>, <<"T", "R", "U", "E">>,
     <<"T", "r", "u", "e">>}

FalseTexts ==
    {<<"0">>, <<"f">>, <<"F">>, <<"f", "a", "l", "s", "e">>, <<"F", "A", "L", "S", "E">>,
     <<"F", "a", "l", "s", "e">>}

StringFlag(def, usage) ==
    [Kind |-> "string", Value |-> def, DefValue |-> def, Usage |-> usage]

BoolFlag(usage) ==
    [Kind |-> "bool", Value |-> <<"f", "a", "l", "s", "e">>,
     DefValue |-> <<"f", "a", "l", "s", "e">>, Usage |-> usage]

\* f.Value.Set(v): a string takes any text, a bool what strconv.ParseBool
\* takes, and then reads back as "true" or "false".
ValueSet(f, v) ==
    IF f.Kind = "bool"
    THEN IF v \in TrueTexts
         THEN [ok |-> TRUE, flag |-> [f EXCEPT !.Value = <<"t", "r", "u", "e">>]]
         ELSE IF v \in FalseTexts
         THEN [ok |-> TRUE, flag |-> [f EXCEPT !.Value = <<"f", "a", "l", "s", "e">>]]
         ELSE [ok |-> FALSE, flag |-> f]
    ELSE [ok |-> TRUE, flag |-> [f EXCEPT !.Value = v]]

\* FlagSet.Var: register a flag under a name
Register(reg, name, f) == (name :> f) @@ reg

\* FlagSet.VisitAll visits the flags in lexicographical order of their names.
RECURSIVE SortNames(_)
SortNames(S) ==
    IF S = {} THEN <<>>
    ELSE LET m == CHOOSE x \in S : \A y \in S \ {x} : StrLess(x, y)
         IN  <<m>> \o SortNames(S \ {m})

VisitOrder(reg) == SortNames(DOMAIN reg)

\* FlagSet.Parse(argv) with ContinueOnError: parseOne until the first
\* non-flag argument, the "--" terminator or an error.
RECURSIVE FlagSetParse(_, _)
FlagSetParse(reg, argv) ==
    IF argv = <<>> THEN [fs |-> reg, err |-> "none"]
    ELSE
    LET s == Head(argv) IN
    IF Len(s) < 2 \/ s[1] # "-" THEN [fs |-> reg, err |-> "none"]
    ELSE
    LET numMinus == IF s[2] = "-" THEN 2 ELSE 1 IN
    IF numMinus = 2 /\ Len(s) = 2 THEN [fs |-> reg, err |-> "none"]
    ELSE
    LET full == SubSeq(s, numMinus + 1, Len(s)) IN
    IF Len(full) = 0 \/ full[1] = "-" \/ full[1] = "="
    THEN [fs |-> reg, err |-> "bad flag syntax"]
    ELSE
    LET rest     == Tail(argv)
        eq       == IndexOf(Tail(full), "=")
        hasValue == eq # 0
        name     == IF hasValue THEN SubSeq(full, 1, eq) ELSE full
        value    == IF hasValue THEN SubSeq(full, eq + 2, Len(full)) ELSE <<>>
    IN
    IF name \notin DOMAIN reg
    THEN [fs |-> reg,
          err |-> IF name \in {<<"h">>, <<"h", "e", "l", "p">>}
                  THEN "help requested" ELSE "flag provided but not defined"]
    ELSE
    IF reg[name].Kind = "bool"
    THEN LET r == ValueSet(reg[name], IF hasValue THEN value ELSE <<"t", "r", "u", "e">>)
         IN  IF r.ok THEN FlagSetParse([reg EXCEPT ![name] = r.flag], rest)
             ELSE [fs |-> reg, err |-> "invalid boolean value"]
    ELSE
    IF ~hasValue /\ rest = <<>>
    THEN [fs |-> reg, err |-> "flag needs an argument"]
    ELSE
    LET val  == IF hasValue THEN value ELSE Head(rest)
        rem  == IF hasValue THEN rest ELSE Tail(rest)
        r    == ValueSet(reg[name], val)
    IN  IF r.ok THEN FlagSetParse([reg EXCEPT ![name] = r.flag], rem)
        ELSE [fs |-> reg, err |-> "invalid value"]

-----------------------------------------------------------------------------
(* Options *)

NilOptions == [nil |-> TRUE]

NewDefaultOptions ==
    [nil |-> FALSE,
     Path |-> <<"c", "o", "n", "f", "i", "g", ".", "t", "x", "t">>,
     ConfigFlagName |-> <<"c", "o", "n", "f", "i", "g">>,
     WriteConfigFlagName |-> <<"w", "r", "i", "t", "e", "-", "c", "o", "n", "f", "i", "g">>]

-----------------------------------------------------------------------------
(* WriteFlagSetConfig.  The output is kept as the sequence of the fmt      *)
(* calls' texts, each tagged with the source line of its call; the bytes   *)
(* the writer receives are their concatenation.                            *)

\* Mutant of multilineComment: only the first line is made a comment.
multilineCommentFirstLineOnly(s, indent) == <<"#">> \o Spaces(indent) \o s

multilineComment(s, indent) ==
    <<"#">> \o Spaces(indent) \o ReplaceNewlines(s, <<"\n", "#">> \o Spaces(indent))

SyntaxHelp ==
    <<"f", "f", "l", "a", "g", " ", "f", "i", "l", "e", " ", "s", "y", "n", "t", "a", "x", ":", "\n">> \o
    <<"\n">> \o
    <<" ", " ", "f", "l", "a", "g", "-", "n", "a", "m", "e", " ", "f", "l", "a", "g", "-", "v", "a", "l", "u", "e", "\n">> \o
    <<"\n">> \o
    <<"w", "h", "e", "r", "e", " ", "f", "l", "a", "g", "-", "n", "a", "m", "e", " ", "i", "s", " ", "a", "n", " ", "a", "r", "g", "u", "m", "e", "n", "t", " ", "n", "a", "m", "e", " ", "w", "i", "t", "h", "o", "u", "t", " ", "t", "h", "e", " ", "\"", "-", "\"", " ", "p", "r", "e", "f", "i", "x", ".", "\n">> \o
    <<"\n">> \o
    <<"C", "o", "m", "m", "e", "n", "t", "s", " ", "b", "e", "g", "i", "n", " ", "w", "i", "t", "h", " ", "a", "n", "y", " ", "o", "f", " ", "t", "h", "e", "s", "e", ":", " ", "#", " ", "'", " ", ";", " ", "/", "/", "\n">> \o
    <<"\n">> \o
    <<"L", "e", "a", "d", "i", "n", "g", " ", "a", "n", "d", " ", "t", "r", "a", "i", "l", "i", "n", "g", " ", "w", "h", "i", "t", "e", "s", "p", "a", "c", "e", " ", "i", "s", " ", "i", "g", "n", "o", "r", "e", "d", " ", "o", "n", " ", "e", "a", "c", "h", " ", "l", "i", "n", "e", ",", " ", "k", "e", "y", " ", "a", "n", "d", " ", "v", "a", "l", "u", "e", ".">>

Chunk(at, text) == [at |-> at, flag |-> <<>>, text |-> text]
FlagChunk(at, name, text) == [at |-> at, flag |-> name, text |-> text]

\* Mutant of WriteFlag: the ignore set is not looked at.
WriteFlagIgnoresNothing(name, f, ignoreFlags) ==
    <<FlagChunk(76, name,
          <<"#", " ">> \o name \o <<"\n">> \o multilineComment(f.Usage, 3)
          \o <<"\n", "#", "\n", "#", " ", "d", "e", "f", "a", "u", "l", "t", ":", "\n", "#", " ">>
          \o name \o <<" ">> \o f.DefValue \o <<"\n">>)>>
    \o (IF f.DefValue # f.Value
        THEN <<FlagChunk(84, name, name \o <<" ">> \o f.Value \o <<"\n">>)>>
        ELSE <<>>)
    \o <<FlagChunk(86, name, <<"\n">>)>>

\* the callback handed to fs.VisitAll (lines 72-87), for one flag
WriteFlag(name, f, ignoreFlags) ==
    IF name \in ignoreFlags THEN <<>>
    ELSE <<FlagChunk(76, name,
                <<"#", " ">> \o name \o <<"\n">> \o multilineComment(f.Usage, 3)
                \o <<"\n", "#", "\n", "#", " ", "d", "e", "f", "a", "u", "l", "t", ":", "\n", "#", " ">>
                \o name \o <<" ">> \o f.DefValue \o <<"\n">>)>>
         \o (IF f.DefValue # f.Value
             THEN <<FlagChunk(84, name, name \o <<" ">> \o f.Value \o <<"\n">>)>>
             ELSE <<>>)
         \o <<FlagChunk(86, name, <<"\n">>)>>

RECURSIVE WriteFlags(_, _, _)
WriteFlags(names, reg, ignoreFlags) ==
    IF names = <<>> THEN <<>>
    ELSE WriteFlag(Head(names), reg[Head(names)], ignoreFlags)
         \o WriteFlags(Tail(names), reg, ignoreFlags)

WriteFlagSetConfig(reg, ignoreFlags) ==
    <<Chunk(62, multilineComment(SyntaxHelp, 1)), Chunk(71, <<"\n", "\n">>)>>
    \o WriteFlags(VisitOrder(reg), reg, ignoreFlags)

RECURSIVE Bytes(_)
Bytes(chunks) == IF chunks = <<>> THEN <<>> ELSE Head(chunks).text \o Bytes(Tail(chunks))

-----------------------------------------------------------------------------
(* The pre-scans of the process arguments *)

\* getFlagConfigPath: a throw-away FlagSet that knows the config flag only,
\* parsed over os.Args[1:]; its errors are dropped.
getFlagConfigPath(configFlagName, processArgs) ==
    LET f == Register(<<>>, configFlagName, StringFlag(<<>>, <<>>))
    IN  FlagSetParse(f, processArgs).fs[configFlagName].Value

\* getFlagWriteConfig: the same with a bool flag.
getFlagWriteConfig(writeConfigFlagName, processArgs) ==
    LET f == Register(<<>>, writeConfigFlagName, BoolFlag(<<>>))
    IN  FlagSetParse(f, processArgs).fs[writeConfigFlagName].Value = <<"t", "r", "u", "e">>

-----------------------------------------------------------------------------
(* parser *)

NoFile == [exists |-> FALSE, data |-> <<>>]
File(data) == [exists |-> TRUE, data |-> data]

\* os.Open(path)
Open(dsk, path) ==
    IF path \in DOMAIN dsk /\ dsk[path].exists THEN "ok" ELSE "ErrNotExist"

\* bufio.ScanLines: lines end at "\n", a "\r" before it is dropped, a last
\* line without "\n" counts when it is not empty.
DropCR(s) == IF s # <<>> /\ s[Len(s)] = "\r" THEN SubSeq(s, 1, Len(s) - 1) ELSE s

RECURSIVE ScanLines(_)
ScanLines(data) ==
    IF data = <<>> THEN <<>>
    ELSE LET i == IndexOf(data, "\n")
         IN  IF i = 0 THEN <<DropCR(data)>>
             ELSE <<DropCR(SubSeq(data, 1, i - 1))>> \o ScanLines(SubSeq(data, i + 1, Len(data)))

NewParser == [textFlags |-> <<>>, errors |-> <<>>, lineNo |-> 0]

UnknownFlagError(path, n, name) ==
    [kind |-> "unknown flag name", path |-> path, line |-> n, name |-> name, value |-> <<>>]

SetError(name, value, path) ==
    [kind |-> "error setting flag", path |-> path, line |-> 0, name |-> name, value |-> value]

\* Mutant of scanLine: a key that is already in the map keeps its first value.
scanLineFirstWins(p, reg, path, text) ==
    LET n == p.lineNo + 1
        r == parseLine(text)
    IN  IF r.k = <<>> THEN [p EXCEPT !.lineNo = n]
        ELSE [textFlags |-> p.textFlags @@ (r.k :> r.v),
              lineNo    |-> n,
              errors    |-> IF r.k \notin DOMAIN reg
                            THEN Append(p.errors, UnknownFlagError(path, n, r.k))
                            ELSE p.errors]

\* parser.scanLine together with the append of its error in scanTextFlags
scanLine(p, reg, path, text) ==
    LET n == p.lineNo + 1
        r == parseLine(text)
    IN  IF r.k = <<>> THEN [p EXCEPT !.lineNo = n]
        ELSE [textFlags |-> (r.k :> r.v) @@ p.textFlags,
              lineNo    |-> n,
              errors    |-> IF r.k \notin DOMAIN reg
                            THEN Append(p.errors, UnknownFlagError(path, n, r.k))
                            ELSE p.errors]

\* Mutant of scanAll: the loop ends at the first line that gives an error.
RECURSIVE scanAllStopsAtError(_, _, _, _)
scanAllStopsAtError(p, reg, path, lines) ==
    IF lines = <<>> THEN p
    ELSE LET q == scanLine(p, reg, path, Head(lines))
         IN  IF q.errors # p.errors THEN q
             ELSE scanAllStopsAtError(q, reg, path, Tail(lines))

\* the loop of scanTextFlags, lines 207-212
RECURSIVE scanAll(_, _, _, _)
scanAll(p, reg, path, lines) ==
    IF lines = <<>> THEN p
    ELSE scanAll(scanLine(p, reg, path, Head(lines)), reg, path, Tail(lines))

\* Mutant of scanTextFlags: a missing file is an error, asked for or not.
scanTextFlagsMissingIsFatal(p, reg, opts, mustExist, dsk) ==
    IF Open(dsk, opts.Path) # "ok"
    THEN [p |-> p, err |-> "error reading"]
    ELSE [p |-> scanAll(p, reg, opts.Path, ScanLines(dsk[opts.Path].data)), err |-> "none"]

\* parser.scanTextFlags
scanTextFlags(p, reg, opts, mustExist, dsk) ==
    IF Open(dsk, opts.Path) # "ok"
    THEN IF ~mustExist /\ Open(dsk, opts.Path) = "ErrNotExist"
         THEN [p |-> p, err |-> "none"]
         ELSE [p |-> p, err |-> "error reading"]
    ELSE [p |-> scanAll(p, reg, opts.Path, ScanLines(dsk[opts.Path].data)), err |-> "none"]

\* parser.visitFlag for the flag called name; st carries the FlagSet, p.errors
\* and the log of the Set calls
visitFlag(st, tf, path, name) ==
    IF name \notin DOMAIN tf THEN st
    ELSE LET r == ValueSet(st.fs[name], tf[name])
         IN  [fs     |-> [st.fs EXCEPT ![name] = r.flag],
              errors |-> IF r.ok THEN st.errors
                         ELSE Append(st.errors, SetError(name, tf[name], path)),
              calls  |-> Append(st.calls, <<name, tf[name]>>)]

\* p.fs.VisitAll(p.visitFlag)
RECURSIVE visitAll(_, _, _, _)
visitAll(st, tf, path, names) ==
    IF names = <<>> THEN st
    ELSE visitAll(visitFlag(st, tf, path, Head(names)), tf, path, Tail(names))

-----------------------------------------------------------------------------
(* ParseArgs(fs, o, args), one action per step of its body.                *)
(* The caller's FlagSet is taken to use flag.ContinueOnError, so that      *)
(* fs.Parse returns its error, and to hold no flag under the names of the  *)
(* two control flags (registering one twice panics).  fs.Parse never       *)
(* returns ErrWriteConfig, so the second half of the test in line 135 is   *)
(* never what decides.  A file that is there can be read: os.Open fails    *)
(* with ErrNotExist only, and sc.Err() is nil.                             *)

Return(kind, es) == [kind |-> kind, errs |-> es]
Pending == Return("pending", <<>>)

NoLine == <<>>
NoKV == [k |-> <<>>, v |-> <<>>]

\* Options a caller passes: nil, or a struct with names of its own, with and
\* without a write-and-exit flag.
CustomOptions ==
    [nil |-> FALSE, Path |-> <<"p">>, ConfigFlagName |-> <<"c">>,
     WriteConfigFlagName |-> <<"w">>]

OptionsChoices ==
    {NilOptions, CustomOptions, [CustomOptions EXCEPT !.WriteConfigFlagName = <<>>]}

EffectiveOptions(oa) == IF oa.nil THEN NewDefaultOptions ELSE oa

\* The flags the caller defined before the call.
UserFlags ==
    (<<"s">> :> StringFlag(<<"d">>, <<"u">>))
    @@ (<<"t">> :> StringFlag(<<"x">>, <<"u", "\n", "v">>))

\* Argument tokens: the override flag with a missing file "m", the override
\* flag taking the next token, the existing file "e" (alone, a positional
\* argument), a user flag, the write-and-exit flag, a flag nobody defined.
Tokens(opts) ==
    { <<"-">> \o opts.ConfigFlagName \o <<"=", "m">>,
      <<"-">> \o opts.ConfigFlagName,
      <<"e">>,
      <<"-", "s", "=", "a">>,
      <<"-">> \o opts.WriteConfigFlagName,
      <<"-", "z">> }

\* Config files: a user flag; a user flag and the write-and-exit flag; an
\* unknown key before a user flag; a value the write-and-exit flag rejects.
ConfigFiles(opts) ==
    { <<"s", " ", "v", "\n">>,
      <<"s", " ", "v", "\n">> \o opts.WriteConfigFlagName \o <<" ", "1", "\n">>,
      <<"u", " ", "1", "\n", "s", " ", "v">>,
      opts.WriteConfigFlagName \o <<" ", "x", "\n">> }

Init ==
    /\ pc = "start"
    /\ oArg \in OptionsChoices
    /\ o = oArg
    /\ args \in SeqsUpTo(Tokens(EffectiveOptions(oArg)), MaxArgs)
    /\ osArgs \in {args} \cup SeqsUpTo(Tokens(EffectiveOptions(oArg)), MaxOsArgs)
    /\ \E content \in ConfigFiles(EffectiveOptions(oArg)), defaultExists \in BOOLEAN :
          disk = (EffectiveOptions(oArg).Path :>
                      (IF defaultExists THEN File(content) ELSE NoFile))
                 @@ (<<"e">> :> File(content))
    /\ fs = UserFlags
    /\ fileMustExist = FALSE
    /\ textFlags = <<>>
    /\ errors = <<>>
    /\ lineNo = 0
    /\ setCalls = <<>>
    /\ ignored = {}
    /\ stdout = <<>>
    /\ ret = Pending
    /\ line = NoLine
    /\ kv = NoKV
    /\ fs2 = <<>>

\* lines 113-116: fs.String(o.ConfigFlagName, ...), fs.Bool(o.WriteConfigFlagName, ...)
RegisterControlFlags(reg, opts) ==
    LET withConfig ==
            Register(reg, opts.ConfigFlagName,
                StringFlag(opts.Path,
                    <<"p", "a", "t", "h", " ", "t", "o", " ", "c", "o", "n", "f", "i", "g", " ", "f", "i", "l", "e">>))
    IN  IF opts.WriteConfigFlagName # <<>>
        THEN Register(withConfig, opts.WriteConfigFlagName,
                 BoolFlag(<<"w", "r", "i", "t", "e", " ", "c", "o", "n", "f", "i", "g", "u", "r", "a", "t", "i", "o", "n", " ", "t", "o", " ", "s", "t", "d", "o", "u", "t", " ", "a", "n", "d", " ", "e", "x", "i", "t">>))
        ELSE withConfig

\* lines 110-116: default the options, register the two control flags
RegisterFlags ==
    /\ pc = "start"
    /\ LET opts == IF oArg.nil THEN NewDefaultOptions ELSE oArg
       IN  /\ o' = opts
           /\ fs' = RegisterControlFlags(fs, opts)
    /\ pc' = "resolve"
    /\ UNCHANGED <<osArgs, args, disk, oArg, fileMustExist, textFlags, errors, lineNo,
                   setCalls, ignored, stdout, ret, line, kv, fs2>>

\* lines 117-129: the pre-scan for the override flag; o points to the caller's
\* struct unless the caller passed nil, so the write to o.Path is a write to it
ResolveConfigPath ==
    /\ pc = "resolve"
    /\ LET configPath == getFlagConfigPath(o.ConfigFlagName, osArgs)
       IN  /\ fileMustExist' = (configPath # <<>>)
           /\ o' = IF configPath # <<>> THEN [o EXCEPT !.Path = configPath] ELSE o
           /\ oArg' = IF oArg.nil THEN oArg
                      ELSE IF configPath # <<>> THEN [oArg EXCEPT !.Path = configPath]
                      ELSE oArg
    /\ textFlags' = NewParser.textFlags
    /\ errors' = NewParser.errors
    /\ lineNo' = NewParser.lineNo
    /\ pc' = "scan"
    /\ UNCHANGED <<osArgs, args, disk, fs, setCalls, ignored, stdout, ret, line, kv,
                   fs2>>

\* parser.parse lines 176-178 (scanTextFlags) and ParseArgs lines 130-133
ScanFile ==
    /\ pc = "scan"
    /\ LET r == scanTextFlags([textFlags |-> textFlags, errors |-> errors, lineNo |-> lineNo],
                              fs, o, fileMustExist, disk)
       IN  /\ textFlags' = r.p.textFlags
           /\ errors' = r.p.errors
           /\ lineNo' = r.p.lineNo
           /\ IF r.err # "none"
              THEN ret' = Return(r.err, <<>>) /\ pc' = "done"
              ELSE ret' = ret /\ pc' = "visit"
    /\ UNCHANGED <<osArgs, args, disk, oArg, o, fs, fileMustExist, setCalls, ignored,
                   stdout, line, kv, fs2>>

\* parser.parse lines 179-183 and ParseArgs lines 130-133
VisitFlags ==
    /\ pc = "visit"
    /\ LET r == visitAll([fs |-> fs, errors |-> errors, calls |-> setCalls],
                         textFlags, o.Path, VisitOrder(fs))
       IN  /\ fs' = r.fs
           /\ errors' = r.errors
           /\ setCalls' = r.calls
           /\ IF Len(r.errors) > 0
              THEN ret' = Return("errs", r.errors) /\ pc' = "done"
              ELSE ret' = ret /\ pc' = "flags"
    /\ UNCHANGED <<osArgs, args, disk, oArg, o, fileMustExist, textFlags, lineNo,
                   ignored, stdout, line, kv, fs2>>

\* Mutant of ParseFlagSet: the file values are applied again after fs.Parse.
ParseFlagSetThenFileAgain ==
    /\ pc = "flags"
    /\ LET r == FlagSetParse(fs, args)
           again == visitAll([fs |-> r.fs, errors |-> <<>>, calls |-> <<>>],
                             textFlags, o.Path, VisitOrder(r.fs))
       IN  /\ fs' = again.fs
           /\ IF r.err # "none"
              THEN ret' = Return(r.err, <<>>) /\ pc' = "done"
              ELSE ret' = ret /\ pc' = "write"
    /\ UNCHANGED <<osArgs, args, disk, oArg, o, fileMustExist, textFlags, errors, lineNo,
                   setCalls, ignored, stdout, line, kv, fs2>>

\* lines 134-137: fs.Parse(args)
ParseFlagSet ==
    /\ pc = "flags"
    /\ LET r == FlagSetParse(fs, args)
       IN  /\ fs' = r.fs
           /\ IF r.err # "none"
              THEN ret' = Return(r.err, <<>>) /\ pc' = "done"
              ELSE ret' = ret /\ pc' = "write"
    /\ UNCHANGED <<osArgs, args, disk, oArg, o, fileMustExist, textFlags, errors, lineNo,
                   setCalls, ignored, stdout, line, kv, fs2>>

\* lines 138-142: the pre-scan for the write-and-exit flag, the dump, the result
WriteOrReturn ==
    /\ pc = "write"
    /\ IF getFlagWriteConfig(o.WriteConfigFlagName, osArgs)
       THEN /\ ignored' = {o.ConfigFlagName, o.WriteConfigFlagName}
            /\ stdout' = WriteFlagSetConfig(fs, {o.ConfigFlagName, o.WriteConfigFlagName})
            /\ ret' = Return("ErrWriteConfig", <<>>)
       ELSE /\ ignored' = ignored
            /\ stdout' = stdout
            /\ ret' = Return("nil", <<>>)
    /\ pc' = "done"
    /\ UNCHANGED <<osArgs, args, disk, oArg, o, fs, fileMustExist, textFlags, errors,
                   lineNo, setCalls, line, kv, fs2>>

Next ==
    \/ RegisterFlags
    \/ ResolveConfigPath
    \/ ScanFile
    \/ VisitFlags
    \/ ParseFlagSet
    \/ WriteOrReturn

Spec == Init /\ [][Next]_vars

-----------------------------------------------------------------------------
(* Reading an argument list the way a caller means it *)

Returned == pc = "done"
Succeeded == pc = "done" /\ ret.kind \in {"nil", "ErrWriteConfig"}

\* "-name=value"
HasPrefix(t, pre) == Len(t) >= Len(pre) /\ SubSeq(t, 1, Len(pre)) = pre
AssignsInline(t, name) == HasPrefix(t, <<"-">> \o name \o <<"=">>)
InlineValue(t, name) == SubSeq(t, Len(name) + 3, Len(t))

\* a token that is a whole flag of the registry by itself: "-name=value", or
\* "-name" for a boolean flag
WholeFlag(reg, t) ==
    \E name \in DOMAIN reg :
        \/ AssignsInline(t, name)
        \/ t = <<"-">> \o name /\ reg[name].Kind = "bool"

\* argv[i] is read as a flag: everything before it is a whole flag
ReadAsFlag(reg, argv, i) == \A j \in 1..(i - 1) : WholeFlag(reg, argv[j])

\* argv names the flag at all, with or without a value
Names(argv, name) ==
    \E i \in 1..Len(argv) : argv[i] = <<"-">> \o name \/ AssignsInline(argv[i], name)

\* argv gives the flag the value v, and this is the last word on the flag
GivesValue(reg, argv, name, v) ==
    \E i \in 1..Len(argv) :
        /\ ReadAsFlag(reg, argv, i)
        /\ AssignsInline(argv[i], name)
        /\ InlineValue(argv[i], name) = v
        /\ \A j \in (i + 1)..Len(argv) :
              argv[j] # <<"-">> \o name /\ ~AssignsInline(argv[j], name)

\* the default config path of the call (the other file of the disk is "e")
DefaultPath == CHOOSE p \in DOMAIN disk : p # <<"e">>

ConfigName == EffectiveOptions(oArg).ConfigFlagName
WriteName == EffectiveOptions(oArg).WriteConfigFlagName

-----------------------------------------------------------------------------
(* C1: whenever the argument list of ParseArgs gives the override flag a   *)
(* path to a file that does not exist, whatever flags precede or follow    *)
(* it, ParseArgs returns the fatal file-access error.                      *)
C1_OverrideToMissingFileIsFatal ==
    (Returned /\ GivesValue(fs, args, ConfigName, <<"m">>)
              /\ Open(disk, <<"m">>) = "ErrNotExist")
        => ret.kind = "error reading"

\* The same for Parse, where the argument list is os.Args[1:]: a flag before
\* the override flag is enough to lose it.
C1_OverrideToMissingFileIsFatalInParse ==
    (Returned /\ osArgs = args
              /\ GivesValue(fs, args, ConfigName, <<"m">>)
              /\ Open(disk, <<"m">>) = "ErrNotExist")
        => ret.kind = "error reading"

(* C2: when scanning and argument parsing succeed, ParseArgs returns       *)
(* ErrWriteConfig, having written the dump, exactly when the               *)
(* write-and-exit flag of the registry has ended up true.                  *)
C2_WriteFlagDecidesErrWriteConfig ==
    Succeeded =>
        /\ (ret.kind = "ErrWriteConfig") <=>
               (WriteName \in DOMAIN fs /\ fs[WriteName].Value = <<"t", "r", "u", "e">>)
        /\ ret.kind = "ErrWriteConfig" => stdout # <<>>

\* The same for Parse, where the argument list is os.Args[1:], and for the
\* flag given in the argument list: a flag before it is enough to lose it.
C2_WriteFlagOfArgumentsInParse ==
    (Succeeded /\ osArgs = args /\ WriteName # <<>>
               /\ \E i \in 1..Len(args) :
                      ReadAsFlag(fs, args, i) /\ args[i] = <<"-">> \o WriteName)
        => ret.kind = "ErrWriteConfig"

(* C3: a flag that the config file sets and the argument list sets too     *)
(* ends with the value of the argument list when ParseArgs succeeds.       *)
C3_CommandLineOverridesFile ==
    Succeeded =>
        \A name \in DOMAIN fs \cap DOMAIN textFlags :
            \A t \in Range(args) :
                LET v == InlineValue(t, name)
                IN  (AssignsInline(t, name) /\ GivesValue(fs, args, name, v)
                        /\ ValueSet(fs[name], v).ok)
                    => fs[name].Value = ValueSet(fs[name], v).flag.Value

\* a file value was applied to s, the argument list then gave another one
C3_Witness ==
    /\ Succeeded
    /\ <<"s">> \in DOMAIN textFlags
    /\ \E i \in 1..Len(setCalls) : setCalls[i] = <<(<<"s">>), textFlags[<<"s">>]>>
    /\ GivesValue(fs, args, <<"s">>, <<"a">>)
    /\ textFlags[<<"s">>] # <<"a">>
    /\ fs[<<"s">>].Value = <<"a">>

C6_ForTheArgumentListAlone ==
    (Returned /\ Open(disk, DefaultPath) = "ErrNotExist" /\ ~Names(args, ConfigName))
        => ret.kind # "error reading"

(* C10: ParseArgs never changes the Options struct of its caller.          *)
C10_OptionsUnchanged == [][oArg' = oArg]_vars

-----------------------------------------------------------------------------
(* parser.parse over a config file: the steps ScanFile and VisitFlags of   *)
(* ParseArgs, started where ParseArgs calls p.parse(), over every file of  *)
(* at most MaxLines lines.                                                 *)

FileLines ==
    { <<"s", " ", "v">>,                 \* a user flag
      <<"s", " ", "w">>,                 \* the same flag, another value
      <<"w", " ", "x">>,                 \* a value the bool flag rejects
      <<"w", " ", "1">>,                 \* a value it accepts
      <<"u", " ", "1">>,                 \* an unknown key
      <<"z">>,                           \* another unknown key, no value
      <<"#", " ", "s", " ", "z">> }      \* a comment

RECURSIVE JoinLines(_)
JoinLines(ls) == IF ls = <<>> THEN <<>> ELSE Head(ls) \o <<"\n">> \o JoinLines(Tail(ls))

InitParse ==
    /\ pc = "scan"
    /\ oArg = CustomOptions
    /\ o = CustomOptions
    /\ args = <<>>
    /\ osArgs = <<>>
    /\ \E ls \in SeqsUpTo(FileLines, MaxLines) :
          disk = (CustomOptions.Path :> File(JoinLines(ls)))
    /\ fs = RegisterControlFlags(UserFlags, CustomOptions)
    /\ fileMustExist \in BOOLEAN
    /\ textFlags = NewParser.textFlags
    /\ errors = NewParser.errors
    /\ lineNo = NewParser.lineNo
    /\ setCalls = <<>>
    /\ ignored = {}
    /\ stdout = <<>>
    /\ ret = Pending
    /\ line = NoLine
    /\ kv = NoKV
    /\ fs2 = <<>>

NextParse == ScanFile \/ VisitFlags

SpecParse == InitParse /\ [][NextParse]_vars

\* the lines of the config file, and what each says
TheLines == ScanLines(disk[o.Path].data)
KeyAt(i) == parseLine(TheLines[i]).k
ValueAt(i) == parseLine(TheLines[i]).v
UnknownAt == {i \in 1..Len(TheLines) : KeyAt(i) # <<>> /\ KeyAt(i) \notin DOMAIN fs}
KnownAt == {i \in 1..Len(TheLines) : KeyAt(i) \in DOMAIN fs}
LastAt(k) == CHOOSE i \in 1..Len(TheLines) :
                 KeyAt(i) = k /\ \A j \in (i + 1)..Len(TheLines) : KeyAt(j) # k
KeysInFile == {KeyAt(i) : i \in 1..Len(TheLines)} \ {<<>>}
Visited == pc \in {"flags", "done"}

(* C4: in a file of unknown keys and of registered flags with acceptable   *)
(* values, in any order, parse collects exactly one error per line with an *)
(* unknown key, naming path and line number, and none for the other lines; *)
(* every registered flag named in the file has its file value applied, and *)
(* the errors are what parse returns.                                      *)
C4_OneErrorPerUnknownKey ==
    (Visited /\ \A i \in KnownAt : ValueSet(fs[KeyAt(i)], ValueAt(i)).ok)
        => /\ Len(errors) = Cardinality(UnknownAt)
           /\ \A i \in UnknownAt :
                  errors[Cardinality({j \in UnknownAt : j <= i})]
                      = UnknownFlagError(o.Path, i, KeyAt(i))
           /\ \A i \in KnownAt :
                  fs[KeyAt(i)].Value
                      = ValueSet(fs[KeyAt(i)], ValueAt(LastAt(KeyAt(i)))).flag.Value
           /\ UnknownAt # {} => ret = Return("errs", errors)
           /\ UnknownAt = {} => ret = Pending

\* an unknown key before a valid one, and a later unknown key: two errors,
\* and the valid flag has its value
C4_Witness ==
    /\ Visited
    /\ Len(TheLines) >= 3
    /\ KeyAt(1) = <<"u">> /\ KeyAt(2) = <<"s">> /\ KeyAt(3) = <<"z">>
    /\ Len(errors) = 2
    /\ fs[<<"s">>].Value = <<"v">>
    /\ ret.kind = "errs"

(* C7: when a key occurs on several lines, the map holds the value of its  *)
(* last occurrence, only that value is handed to the setter of the flag,   *)
(* once, and no error is reported for an earlier value.                    *)
C7_LastOccurrenceWins ==
    /\ pc \in {"visit", "flags", "done"} =>
          /\ DOMAIN textFlags = KeysInFile
          /\ \A k \in KeysInFile : textFlags[k] = ValueAt(LastAt(k))
    /\ Visited =>
          /\ \A i \in 1..Len(setCalls) :
                /\ setCalls[i][1] \in KeysInFile
                /\ setCalls[i][2] = ValueAt(LastAt(setCalls[i][1]))
                /\ \A j \in 1..Len(setCalls) : setCalls[j][1] = setCalls[i][1] => j = i
          /\ \A k \in KeysInFile \cap DOMAIN fs :
                \E i \in 1..Len(setCalls) : setCalls[i][1] = k
          /\ \A i \in 1..Len(errors) :
                errors[i].kind = "error setting flag"
                    => errors[i].value = ValueAt(LastAt(errors[i].name))

\* the bool flag with a value it rejects and then one it accepts: the flag
\* is set from the second, and there is no error
C7_Witness ==
    /\ Visited
    /\ Len(TheLines) >= 2
    /\ TheLines[1] = <<"w", " ", "x">>
    /\ KeyAt(2) = <<"w">> /\ ValueAt(2) = <<"1">>
    /\ KeysInFile = {<<"w">>}
    /\ setCalls = << <<(<<"w">>), <<"1">>>> >>
    /\ errors = <<>>
    /\ fs[<<"w">>].Value = <<"t", "r", "u", "e">>

-----------------------------------------------------------------------------
(* parseLine over every line of at most MaxLineLen characters *)

LineChars == {"k", "v", " ", "\t", "#", "/"}

InitLine ==
    /\ pc = "line"
    /\ line \in SeqsUpTo(LineChars, MaxLineLen)
    /\ kv = NoKV
    /\ oArg = NilOptions
    /\ o = NilOptions
    /\ args = <<>>
    /\ osArgs = <<>>
    /\ disk = <<>>
    /\ fs = <<>>
    /\ fileMustExist = FALSE
    /\ textFlags = <<>>
    /\ errors = <<>>
    /\ lineNo = 0
    /\ setCalls = <<>>
    /\ ignored = {}
    /\ stdout = <<>>
    /\ ret = Pending
    /\ fs2 = <<>>

\* k, v := parseLine(sc.Text())
ParseLine ==
    /\ pc = "line"
    /\ kv' = parseLine(line)
    /\ pc' = "parsed"
    /\ UNCHANGED <<osArgs, args, disk, oArg, o, fs, fileMustExist, textFlags, errors,
                   lineNo, setCalls, ignored, stdout, ret, line, fs2>>

NextLine == ParseLine

SpecLine == InitLine /\ [][NextLine]_vars

\* the first token of a trimmed line when any white space ends it, and the
\* rest of the line
RECURSIVE TokenLen(_)
TokenLen(s) == IF s = <<>> \/ IsSpace(Head(s)) THEN 0 ELSE 1 + TokenLen(Tail(s))
FirstToken(s) == SubSeq(s, 1, TokenLen(s))
AfterToken(s) == SubSeq(s, TokenLen(s) + 1, Len(s))

(* C8: for a line that is no comment, parseLine returns the first token of *)
(* the trimmed line, ended by any white space (space or tab), as the key   *)
(* and the trimmed rest of the line as the value.                          *)
C8_KeyIsFirstWhitespaceToken ==
    (pc = "parsed" /\ ~isComment(TrimSpace(line)))
        => /\ kv.k = FirstToken(TrimSpace(line))
           /\ kv.v = TrimSpace(AfterToken(TrimSpace(line)))

\* What holds of the code: the key ends at the first space; a tab before it
\* is part of the key.
C8_KeyEndsAtFirstSpace ==
    (pc = "parsed" /\ ~isComment(TrimSpace(line)))
        => LET ln == TrimSpace(line)
               n  == IF " " \in Range(ln)
                     THEN CHOOSE i \in 1..Len(ln) :
                              ln[i] = " " /\ \A j \in 1..(i - 1) : ln[j] # " "
                     ELSE Len(ln) + 1
           IN  /\ kv.k = SubSeq(ln, 1, n - 1)
               /\ kv.v = TrimSpace(SubSeq(ln, n + 1, Len(ln)))

-----------------------------------------------------------------------------
(* WriteFlagSetConfig, and its output read back by parser.parse into a     *)
(* fresh FlagSet with the same flag definitions.                           *)

ValueChars == {"a", " ", "\n"}
OddNames == {<<"y">>, <<"#", "y">>, <<"y", " ", "z">>}
OutPath == <<"o", "u", "t">>

\* flag.NewFlagSet with the definitions of reg: every flag at its default
Fresh(reg) == [n \in DOMAIN reg |-> [reg[n] EXCEPT !.Value = reg[n].DefValue]]

InitRT ==
    /\ pc = "rt"
    /\ \E xv \in SeqsUpTo(ValueChars, MaxValLen), xd \in SeqsUpTo(ValueChars, MaxValLen),
          n2 \in OddNames :
          fs = (<<"x">> :> [StringFlag(xd, <<"u">>) EXCEPT !.Value = xv])
               @@ (n2 :> [StringFlag(<<>>, <<>>) EXCEPT !.Value = <<"b">>])
               @@ (<<"w">> :> ValueSet(BoolFlag(<<"u", "\n", "v">>), <<"1">>).flag)
    /\ ignored \in SUBSET DOMAIN fs
    /\ stdout = <<>>
    /\ fs2 = Fresh(fs)
    /\ disk = <<>>
    /\ o = [CustomOptions EXCEPT !.Path = OutPath]
    /\ oArg = o
    /\ args = <<>>
    /\ osArgs = <<>>
    /\ fileMustExist = TRUE
    /\ textFlags = NewParser.textFlags
    /\ errors = NewParser.errors
    /\ lineNo = NewParser.lineNo
    /\ setCalls = <<>>
    /\ ret = Pending
    /\ line = NoLine
    /\ kv = NoKV

\* WriteFlagSetConfig(w, fs, ignoreFlags...); what w received becomes a file
WriteConfig ==
    /\ pc = "rt"
    /\ stdout' = WriteFlagSetConfig(fs, ignored)
    /\ disk' = (OutPath :> File(Bytes(WriteFlagSetConfig(fs, ignored))))
    /\ pc' = "written"
    /\ UNCHANGED <<osArgs, args, oArg, o, fs, fileMustExist, textFlags, errors, lineNo,
                   setCalls, ignored, ret, line, kv, fs2>>

\* p.parse() of that file into the fresh FlagSet
ReadBack ==
    /\ pc = "written"
    /\ LET scanned == scanTextFlags(NewParser, fs2, o, fileMustExist, disk)
           r == visitAll([fs |-> fs2, errors |-> scanned.p.errors, calls |-> setCalls],
                         scanned.p.textFlags, o.Path, VisitOrder(fs2))
       IN  /\ textFlags' = scanned.p.textFlags
           /\ lineNo' = scanned.p.lineNo
           /\ fs2' = r.fs
           /\ errors' = r.errors
           /\ setCalls' = r.calls
           /\ ret' = IF scanned.err # "none" THEN Return(scanned.err, <<>>)
                     ELSE IF Len(r.errors) > 0 THEN Return("errs", r.errors)
                     ELSE Return("nil", <<>>)
    /\ pc' = "read back"
    /\ UNCHANGED <<osArgs, args, disk, oArg, o, fs, fileMustExist, ignored, stdout, line,
                   kv>>

NextRT == WriteConfig \/ ReadBack

SpecRT == InitRT /\ [][NextRT]_vars

Written == pc \in {"written", "read back"}
Kept == DOMAIN fs \ ignored
ActiveLines == SelectSeq(stdout, LAMBDA c : c.at = 84)

\* a name the file syntax can carry as a key, a value it can carry
KeyLike(name) ==
    /\ name # <<>>
    /\ \A i \in 1..Len(name) : ~IsSpace(name[i])
    /\ ~isComment(name)
OneLine(v) == "\n" \notin Range(v)
ValueLike(v) == OneLine(v) /\ TrimSpace(v) = v

(* C5: round trip.  For every registry, writing it and parsing the output  *)
(* into a fresh registry with the same definitions gives no errors and     *)
(* gives every flag that was not excluded its value in the original.       *)
C5_RoundTrip ==
    pc = "read back" =>
        /\ ret = Return("nil", <<>>)
        /\ \A n \in Kept : fs2[n].Value = fs[n].Value

(* C5 as amended: the round trip holds when, for every flag that is not    *)
(* excluded, the name is a key of the syntax (not empty, no white space,   *)
(* no comment prefix), the default has no line break and the value has no  *)
(* line break and no leading or trailing white space.                      *)
C5_RoundTripOfRepresentableValues ==
    (pc = "read back"
        /\ \A n \in Kept : KeyLike(n) /\ OneLine(fs[n].DefValue) /\ ValueLike(fs[n].Value))
    => /\ ret = Return("nil", <<>>)
       /\ \A n \in Kept : fs2[n].Value = fs[n].Value

\* nothing excluded: x, y and w come back with values that are not their
\* defaults, w with a usage of two lines
C5_Witness ==
    /\ pc = "read back"
    /\ ignored = {}
    /\ DOMAIN fs = {<<"x">>, <<"y">>, <<"w">>}
    /\ fs[<<"w">>].Usage = <<"u", "\n", "v">>
    /\ fs[<<"x">>].DefValue = <<"a">>
    /\ fs[<<"x">>].Value = <<"a", "a">>
    /\ fs2[<<"x">>].Value = <<"a", "a">>
    /\ fs2[<<"w">>].Value = <<"t", "r", "u", "e">>
    /\ fs2[<<"y">>].Value = <<"b">>
    /\ ret.kind = "nil"

(* C9: WriteFlagSetConfig emits the active line "name value" of a flag     *)
(* exactly when the flag is not in the ignore set and the text of its      *)
(* value differs from its default; a flag of the ignore set gets no output *)
(* at all; each flag is emitted once, in the order VisitAll visits.        *)
C9_ActiveLineIffKeptAndChanged ==
    Written =>
        /\ {c.flag : c \in Range(ActiveLines)}
               = {n \in DOMAIN fs : n \notin ignored /\ fs[n].Value # fs[n].DefValue}
        /\ \A i \in 1..Len(ActiveLines) :
               /\ ActiveLines[i].text
                     = ActiveLines[i].flag \o <<" ">> \o fs[ActiveLines[i].flag].Value \o <<"\n">>
               /\ \A j \in (i + 1)..Len(ActiveLines) :
                     StrLess(ActiveLines[i].flag, ActiveLines[j].flag)
        /\ \A c \in Range(stdout) : c.flag \notin ignored
        /\ \A n \in Kept : \E c \in Range(stdout) : c.at = 76 /\ c.flag = n

\* an excluded flag that is not at its default, a kept one that is, and a
\* kept one that is not: one active line
C9_Witness ==
    /\ Written
    /\ ignored = {<<"w">>}
    /\ fs[<<"w">>].Value # fs[<<"w">>].DefValue
    /\ fs[<<"x">>].Value = fs[<<"x">>].DefValue
    /\ Len(ActiveLines) = 1
    /\ ActiveLines[1].flag \notin {<<"x">>, <<"w">>}

====
